---- MODULE Spec2Model ----
(***************************************************************************)
(* State-machine model of the point-of-sale dashboard in                   *)
(* src/Files/script.js: the persisted document posData, the billing cart,  *)
(* the credit ledger and the stock receipts.                               *)
(*                                                                         *)
(* Money is counted in whole cents (LKR 1.00 = 100).  formatCurrency       *)
(* (toFixed(2)) is the rounding of a value to whole cents; a value lying   *)
(* exactly between two cents may be printed as either, because the result  *)
(* depends on the binary value of the double.                              *)
(* crypto.randomUUID() is modelled as the least identifier that occurs     *)
(* nowhere among the identifiers it could be compared with.                *)
(***************************************************************************)
EXTENDS Integers, Sequences, FiniteSets, TLC

\* ---- bound of the model: the number of user gestures in a session ----
MaxSteps == 6

\* ---- the number of nested dispatchEvent calls the call stack has room for ----
CallStackLimit == 3

\* ---- input domains ----
NoId == 0
Codes == {"A", "B"}
Prices == {5, 10}
StockInputs == {-1, 0, 2}
CreditLimitInputs == {-1, 15}
QtyInputs == {0, 1, 2}
DiscountTypes == {"lkr", "percentage"}
DiscountInputs == {-1, 10, 100}
PaymentMethods == {"cash", "card", "cheque", "credit"}
InstallmentMethods == {"cash", "cheque"}
InstallmentInputs == {0, 5, 20}
ManualCode == "M"
NoItem == [id |-> NoId, code |-> ""]
\* the id 'main' of the default channel; generated ids start at 1
MainChannelId == 0
ChequeStatuses == {"Pending", "Claimed", "Released", "Bounced"}
UploadOutcomes == {"none", "ok", "fail"}
\* the value of the 'user' item of localStorage: no item, or the credentials
\* of the account (name, email, password) as one number
NoUser == 0
Credentials == {1, 2}

VARIABLES posData, currentCart, currentGrnItems, editingCreditBillId,
          discountTypeSelect, discountValueInput,
          cartSubtotalSpan, cartGrandtotalSpan,
          itemFormMode, itemFormItem, customerFormMode, customerFormCustomer,
          localStorage, storageFull,
          submitRuns, uncaughtError,
          page, user,
          clock, modal, steps

vars == <<posData, currentCart, currentGrnItems, editingCreditBillId,
          discountTypeSelect, discountValueInput,
          cartSubtotalSpan, cartGrandtotalSpan,
          itemFormMode, itemFormItem, customerFormMode, customerFormCustomer,
          localStorage, storageFull,
          submitRuns, uncaughtError,
          page, user,
          clock, modal, steps>>

billingVars == <<currentCart, discountTypeSelect, discountValueInput,
                 cartSubtotalSpan, cartGrandtotalSpan>>
itemFormVars == <<itemFormMode, itemFormItem>>
customerFormVars == <<customerFormMode, customerFormCustomer>>
creditModalVars == <<editingCreditBillId>>
storageVars == <<localStorage, storageFull>>
\* the last submit of a form: how often its 'submit' listener ran, and the
\* error that ended it uncaught ("" = none)
dispatchVars == <<submitRuns, uncaughtError>>
\* the page the browser shows, and the account kept by login.js
sessionVars == <<page, user>>

\* every action is one gesture of the user
gesture == steps < MaxSteps /\ steps' = steps + 1

\* ---- array helpers (Array.prototype.find / findIndex / filter / some) ----
Range(s) == {s[i] : i \in DOMAIN s}

Min(a, b) == IF a < b THEN a ELSE b

\* index of the first element whose id is `id`, 0 when there is none
findIndexById(s, id) ==
    IF \E i \in DOMAIN s : s[i].id = id
    THEN CHOOSE i \in DOMAIN s : s[i].id = id /\ \A j \in 1..(i-1) : s[j].id # id
    ELSE 0

\* index of the first element whose code is `code`, 0 when there is none
findIndexByCode(s, code) ==
    IF \E i \in DOMAIN s : s[i].code = code
    THEN CHOOSE i \in DOMAIN s : s[i].code = code /\ \A j \in 1..(i-1) : s[j].code # code
    ELSE 0

filterOutId(s, id) == SelectSeq(s, LAMBDA x : x.id # id)

generateUniqueId(used) ==
    CHOOSE n \in 1..(Cardinality(used) + 1) :
        n \notin used /\ \A m \in 1..(n-1) : m \in used

\* identifiers an inventory-item id can be compared with
itemIdsInUse ==
    {x.id : x \in Range(posData.inventory)} \cup {x.id : x \in Range(currentCart)}
    \cup {x.id : x \in Range(currentGrnItems)}
    \cup UNION {{x.id : x \in Range(g.items)} : g \in Range(posData.grns)}
    \cup UNION {{x.id : x \in Range(s.items)} : s \in Range(posData.sales)}
    \cup (IF itemFormItem.id = NoId THEN {} ELSE {itemFormItem.id})

customerIdsInUse ==
    {c.id : c \in Range(posData.customers)}
    \cup {b.customerId : b \in Range(posData.creditBills)}
    \cup {s.customer.id : s \in Range(posData.sales)}
    \cup (IF customerFormCustomer = NoId THEN {} ELSE {customerFormCustomer})

paymentIdsInUse ==
    {p.id : p \in Range(posData.payments)}
    \cup UNION {{p.id : p \in Range(b.paymentHistory)} : b \in Range(posData.creditBills)}

creditBillIdsInUse ==
    {b.id : b \in Range(posData.creditBills)}
    \cup (IF editingCreditBillId = NoId THEN {} ELSE {editingCreditBillId})

chequeIdsInUse == {c.id : c \in Range(posData.cheques)}

channelIdsInUse == {c.id : c \in Range(posData.distributionChannels)}

\* ---- defaultPOSData and the page after DOMContentLoaded ----
defaultPOSData ==
    [inventory |-> <<>>, customers |-> <<>>,
     distributionChannels |-> <<[id |-> MainChannelId]>>,
     sales |-> <<>>, grns |-> <<>>,
     payments |-> <<>>, creditBills |-> <<>>, cheques |-> <<>>]

Init ==
    /\ posData = defaultPOSData
    /\ currentCart = <<>>
    /\ currentGrnItems = <<>>
    /\ editingCreditBillId = NoId
    /\ discountTypeSelect = "lkr"
    /\ discountValueInput = 0
    /\ cartSubtotalSpan = 0
    /\ cartGrandtotalSpan = 0
    /\ itemFormMode = "add"
    /\ itemFormItem = NoItem
    /\ customerFormMode = "add"
    /\ customerFormCustomer = NoId
    /\ localStorage = defaultPOSData
    /\ storageFull = FALSE
    /\ submitRuns = 0
    /\ uncaughtError = ""
    /\ page = "dashboard"
    /\ user = NoUser
    /\ clock = 0
    /\ modal = [title |-> "", message |-> ""]
    /\ steps = 0

\* ---- showModal: the title and the text of the message shown last ----
showModal(title, message) == modal' = [title |-> title, message |-> message]

\* ---- savePOSData ----
\* localStorage.setItem throws while the origin's storage is full or blocked:
\* the stored document then stays what it was and posData is not rolled back.
\* called: the handler reached its savePOSData() call.  The 'Error' message
\* savePOSData shows on a failure is replaced by whatever the handler shows
\* after the call.
savePOSData(called) ==
    /\ localStorage' = IF called /\ ~storageFull THEN posData' ELSE localStorage
    /\ UNCHANGED storageFull

\* ---- inventory form ----
\* number inputs are integers; -1 stands for an input that is NaN or negative
validItemNumbers(price, stock) == price >= 0 /\ stock >= 0

\* the 'submit' listener without its look-up of the code in the inventory
addInventoryItemListenerNoCodeCheck(inv, code, price, stock) ==
    IF ~validItemNumbers(price, stock)
    THEN [inventory |-> inv, added |-> FALSE, message |-> "valid numbers"]
    ELSE [inventory |-> Append(inv, [id |-> generateUniqueId(itemIdsInUse), code |-> code,
                                      price |-> price, stock |-> stock]),
          added |-> TRUE, message |-> "Item added"]

\* the 'submit' listener registered on addInventoryItemForm at load
addInventoryItemListener(inv, code, price, stock) ==
    IF ~validItemNumbers(price, stock)
    THEN [inventory |-> inv, added |-> FALSE, message |-> "valid numbers"]
    ELSE IF findIndexByCode(inv, code) # 0
    THEN [inventory |-> inv, added |-> FALSE, message |-> "code already exists"]
    ELSE [inventory |-> Append(inv, [id |-> generateUniqueId(itemIdsInUse), code |-> code,
                                      price |-> price, stock |-> stock]),
          added |-> TRUE, message |-> "Item added"]

\* the onsubmit closure installed by editInventoryItem; item is the captured
\* object, which stays what it was when the item has left the inventory
editItemOnsubmit(inv, item, code, price, stock) ==
    IF ~validItemNumbers(price, stock)
    THEN [inventory |-> inv, updated |-> FALSE, message |-> "valid numbers"]
    ELSE IF code # item.code /\ \E i \in DOMAIN inv : inv[i].code = code /\ inv[i].id # item.id
    THEN [inventory |-> inv, updated |-> FALSE, message |-> "another item uses this code"]
    ELSE [inventory |-> [i \in DOMAIN inv |->
                            IF inv[i].id = item.id
                            THEN [inv[i] EXCEPT !.code = code, !.price = price, !.stock = stock]
                            ELSE inv[i]],
          updated |-> TRUE, message |-> "Item updated"]

RECURSIVE redispatchItemSubmit(_, _, _, _, _, _)
\* addInventoryItemForm.dispatchEvent(submit) while onsubmit is the handler
\* left by a completed edit, "(e) => addInventoryItemForm.dispatchEvent(new
\* Event('submit'))".  depth dispatches are on the call stack; the listener
\* runs on the values the form holds (emptied by form.reset() after an add),
\* then onsubmit dispatches again.  Nothing ends the nesting but the call
\* stack: the dispatch that finds no room throws a RangeError, which no
\* handler catches.  shown is the message on the screen.
redispatchItemSubmit(depth, inv, code, price, stock, shown) ==
    IF depth >= CallStackLimit
    THEN [inventory |-> inv, added |-> FALSE, runs |-> 0, error |-> "RangeError",
          shown |-> shown]
    ELSE LET r == addInventoryItemListener(inv, code, price, stock)
             m == [title |-> IF r.added THEN "Success" ELSE "Error", message |-> r.message]
             n == IF r.added
                  THEN redispatchItemSubmit(depth + 1, r.inventory, "", -1, -1, m)
                  ELSE redispatchItemSubmit(depth + 1, r.inventory, code, price, stock, m)
         IN  [inventory |-> n.inventory, added |-> r.added \/ n.added,
              runs |-> n.runs + 1, error |-> n.error, shown |-> n.shown]

\* One submit of the item form.  The load-time listener always runs first.
\* In edit mode the onsubmit closure runs after it, on the values the form
\* holds then: the listener's form.reset() has emptied the number inputs when
\* it added an item.  After a completed edit onsubmit re-dispatches 'submit'.
SubmitItemForm(code, price, stock) ==
    LET r1 == addInventoryItemListener(posData.inventory, code, price, stock)
        r2 == IF r1.added
              THEN [inventory |-> r1.inventory, updated |-> FALSE, message |-> "valid numbers"]
              ELSE editItemOnsubmit(r1.inventory, itemFormItem, code, price, stock)
        d  == redispatchItemSubmit(0, posData.inventory, code, price, stock, modal)
    IN  /\ IF itemFormMode = "add"
           THEN /\ posData' = [posData EXCEPT !.inventory = r1.inventory]
                /\ showModal(IF r1.added THEN "Success" ELSE "Error", r1.message)
                /\ submitRuns' = 1
                /\ uncaughtError' = ""
                /\ UNCHANGED itemFormVars
           ELSE IF itemFormMode = "edit"
           THEN /\ posData' = [posData EXCEPT !.inventory = r2.inventory]
                /\ showModal(IF r2.updated THEN "Success" ELSE "Error", r2.message)
                /\ itemFormMode' = IF r2.updated THEN "redispatch" ELSE "edit"
                /\ submitRuns' = 1
                /\ uncaughtError' = ""
                /\ UNCHANGED itemFormItem
           ELSE /\ posData' = [posData EXCEPT !.inventory = d.inventory]
                /\ modal' = d.shown
                /\ submitRuns' = d.runs
                /\ uncaughtError' = d.error
                /\ UNCHANGED itemFormVars
        /\ savePOSData(r1.added \/ (itemFormMode = "edit" /\ r2.updated))
        /\ UNCHANGED <<billingVars, currentGrnItems, creditModalVars, customerFormVars,
                       sessionVars, clock>>

EditInventoryItem(id) ==
    LET i == findIndexById(posData.inventory, id)
    IN  /\ IF i = 0
           THEN /\ showModal("Error", "Item not found")
                /\ UNCHANGED itemFormVars
           ELSE /\ itemFormMode' = "edit"
                /\ itemFormItem' = [id |-> id, code |-> posData.inventory[i].code]
                /\ showModal("Info", "edit mode")
        /\ UNCHANGED <<posData, storageVars, dispatchVars, sessionVars, billingVars, currentGrnItems,
                       creditModalVars, customerFormVars, clock>>

DeleteInventoryItem(id) ==
    /\ posData' = [posData EXCEPT !.inventory = filterOutId(posData.inventory, id)]
    /\ savePOSData(TRUE)
    /\ showModal("Success", "Item deleted")
    /\ UNCHANGED <<billingVars, currentGrnItems, creditModalVars, itemFormVars, dispatchVars, sessionVars,
                   customerFormVars, clock>>

\* ---- customer form ----
addCustomerListener(customers, creditLimit) ==
    IF creditLimit < 0
    THEN [customers |-> customers, added |-> FALSE, message |-> "valid credit limit"]
    ELSE [customers |-> Append(customers, [id |-> generateUniqueId(customerIdsInUse),
                                            creditLimit |-> creditLimit,
                                            outstandingCredit |-> 0]),
          added |-> TRUE, message |-> "Customer added"]

editCustomerOnsubmit(customers, id, creditLimit) ==
    IF creditLimit < 0
    THEN [customers |-> customers, updated |-> FALSE, message |-> "valid credit limit"]
    ELSE [customers |-> [i \in DOMAIN customers |->
                            IF customers[i].id = id
                            THEN [customers[i] EXCEPT !.creditLimit = creditLimit]
                            ELSE customers[i]],
          updated |-> TRUE, message |-> "Customer updated"]

RECURSIVE redispatchCustomerSubmit(_, _, _, _)
\* addCustomerForm.dispatchEvent(submit) while onsubmit is the handler left by
\* a completed edit of a customer; as redispatchItemSubmit
redispatchCustomerSubmit(depth, customers, creditLimit, shown) ==
    IF depth >= CallStackLimit
    THEN [customers |-> customers, added |-> FALSE, runs |-> 0, error |-> "RangeError",
          shown |-> shown]
    ELSE LET r == addCustomerListener(customers, creditLimit)
             m == [title |-> IF r.added THEN "Success" ELSE "Error", message |-> r.message]
             n == redispatchCustomerSubmit(depth + 1, r.customers,
                                           IF r.added THEN -1 ELSE creditLimit, m)
         IN  [customers |-> n.customers, added |-> r.added \/ n.added,
              runs |-> n.runs + 1, error |-> n.error, shown |-> n.shown]

\* One submit of the customer form; same listener order as the item form.
SubmitCustomerForm(creditLimit) ==
    LET r1 == addCustomerListener(posData.customers, creditLimit)
        r2 == IF r1.added
              THEN [customers |-> r1.customers, updated |-> FALSE, message |-> "valid credit limit"]
              ELSE editCustomerOnsubmit(r1.customers, customerFormCustomer, creditLimit)
        d  == redispatchCustomerSubmit(0, posData.customers, creditLimit, modal)
    IN  /\ IF customerFormMode = "add"
           THEN /\ posData' = [posData EXCEPT !.customers = r1.customers]
                /\ showModal(IF r1.added THEN "Success" ELSE "Error", r1.message)
                /\ submitRuns' = 1
                /\ uncaughtError' = ""
                /\ UNCHANGED customerFormVars
           ELSE IF customerFormMode = "edit"
           THEN /\ posData' = [posData EXCEPT !.customers = r2.customers]
                /\ showModal(IF r2.updated THEN "Success" ELSE "Error", r2.message)
                /\ customerFormMode' = IF r2.updated THEN "redispatch" ELSE "edit"
                /\ submitRuns' = 1
                /\ uncaughtError' = ""
                /\ UNCHANGED customerFormCustomer
           ELSE /\ posData' = [posData EXCEPT !.customers = d.customers]
                /\ modal' = d.shown
                /\ submitRuns' = d.runs
                /\ uncaughtError' = d.error
                /\ UNCHANGED customerFormVars
        /\ savePOSData(r1.added \/ (customerFormMode = "edit" /\ r2.updated))
        /\ UNCHANGED <<billingVars, currentGrnItems, creditModalVars, itemFormVars,
                       sessionVars, clock>>

EditCustomer(id) ==
    /\ IF findIndexById(posData.customers, id) = 0
       THEN /\ showModal("Error", "Customer not found")
            /\ UNCHANGED customerFormVars
       ELSE /\ customerFormMode' = "edit"
            /\ customerFormCustomer' = id
            /\ showModal("Info", "edit mode")
    /\ UNCHANGED <<posData, storageVars, billingVars, currentGrnItems, creditModalVars, itemFormVars, dispatchVars, sessionVars, clock>>

\* deleteCustomer without the look at the customer's credit bills
DeleteCustomerUnguarded(id) ==
    /\ posData' = [posData EXCEPT !.customers = filterOutId(posData.customers, id)]
    /\ savePOSData(TRUE)
    /\ showModal("Success", "Customer deleted")
    /\ UNCHANGED <<billingVars, currentGrnItems, creditModalVars, itemFormVars, dispatchVars, sessionVars,
                   customerFormVars, clock>>

\* deleteCustomer that also purges the sales made to the customer
DeleteCustomerPurgingSales(id) ==
    /\ IF \E b \in Range(posData.creditBills) : b.customerId = id /\ b.dueAmount > 0
       THEN /\ showModal("Error", "outstanding credit bills")
            /\ UNCHANGED <<posData, storageVars>>
       ELSE /\ posData' = [posData EXCEPT
                              !.customers = filterOutId(posData.customers, id),
                              !.sales = SelectSeq(@, LAMBDA sale : sale.customer.id # id)]
            /\ savePOSData(TRUE)
            /\ showModal("Success", "Customer deleted")
    /\ UNCHANGED <<billingVars, currentGrnItems, creditModalVars, itemFormVars, dispatchVars, sessionVars,
                   customerFormVars, clock>>

\* deleteCustomer that looks at the customer's balance instead of the bills
DeleteCustomerByBalance(id) ==
    LET c == findIndexById(posData.customers, id)
    IN  /\ IF c > 0 /\ posData.customers[c].outstandingCredit > posData.customers[c].creditLimit
           THEN /\ showModal("Error", "outstanding credit bills")
                /\ UNCHANGED <<posData, storageVars>>
           ELSE /\ posData' = [posData EXCEPT !.customers = filterOutId(posData.customers, id)]
                /\ savePOSData(TRUE)
                /\ showModal("Success", "Customer deleted")
        /\ UNCHANGED <<billingVars, currentGrnItems, creditModalVars, itemFormVars, dispatchVars, sessionVars,
                       customerFormVars, clock>>

DeleteCustomer(id) ==
    /\ IF \E b \in Range(posData.creditBills) : b.customerId = id /\ b.dueAmount > 0
       THEN /\ showModal("Error", "outstanding credit bills")
            /\ UNCHANGED <<posData, storageVars>>
       ELSE /\ posData' = [posData EXCEPT !.customers = filterOutId(posData.customers, id)]
            /\ savePOSData(TRUE)
            /\ showModal("Success", "Customer deleted")
    /\ UNCHANGED <<billingVars, currentGrnItems, creditModalVars, itemFormVars, dispatchVars, sessionVars,
                   customerFormVars, clock>>

\* ---- billing: cart and totals ----
RECURSIVE cartSubtotal(_)
cartSubtotal(cart) ==
    IF cart = <<>> THEN 0 ELSE Head(cart).price * Head(cart).qty + cartSubtotal(Tail(cart))

\* toFixed(2) of an amount given in hundredths of a cent: the printed cents
toFixed2(n100) ==
    LET q == n100 \div 100
        r == n100 % 100
    IN  IF r < 50 THEN {q} ELSE IF r > 50 THEN {q + 1} ELSE {q, q + 1}

\* calculateGrandTotal without "discountAmount = Math.min(discountAmount, subtotal)"
calculateGrandTotalUnclamped(subtotal, type, value) ==
    LET discountAmount == IF type = "lkr" THEN value * 100 ELSE subtotal * value
    IN  toFixed2(subtotal * 100 - discountAmount)

\* calculateGrandTotal: the values cartGrandtotalSpan can take for a subtotal
\* (cents), a discount type and a valid discount value (cents or percent)
calculateGrandTotal(subtotal, type, value) ==
    LET discountAmount == IF type = "lkr" THEN value * 100 ELSE subtotal * value
        clamped == Min(discountAmount, subtotal * 100)
    IN  toFixed2(subtotal * 100 - clamped)

\* renderCart: both spans are rewritten from the cart and the discount inputs
renderCart(cart) ==
    /\ currentCart' = cart
    /\ cartSubtotalSpan' = cartSubtotal(cart)
    /\ cartGrandtotalSpan' \in
           calculateGrandTotal(cartSubtotal(cart), discountTypeSelect, discountValueInput)
    /\ UNCHANGED <<discountTypeSelect, discountValueInput>>

\* addItemToCart(item, quantity); item is [id, code, price]
addItemToCart(item, quantity) ==
    LET k == findIndexById(currentCart, item.id)
        i == findIndexById(posData.inventory, item.id)
        updatedQty == IF k > 0 THEN currentCart[k].qty + quantity ELSE quantity
    IN  IF i > 0 /\ updatedQty > posData.inventory[i].stock
        THEN /\ showModal("Error", "Not enough stock")
             /\ UNCHANGED billingVars
        ELSE /\ renderCart(IF k > 0
                           THEN [currentCart EXCEPT ![k].qty = updatedQty]
                           ELSE Append(currentCart, [id |-> item.id, code |-> item.code,
                                                     price |-> item.price, qty |-> quantity]))
             /\ UNCHANGED modal

AddItemByBarcode(code) ==
    LET i == findIndexByCode(posData.inventory, code)
    IN  /\ IF i = 0
           THEN /\ showModal("Error", "Item not found in inventory")
                /\ UNCHANGED billingVars
           ELSE addItemToCart(posData.inventory[i], 1)
        /\ UNCHANGED <<posData, storageVars, currentGrnItems, creditModalVars, itemFormVars, dispatchVars, sessionVars,
                       customerFormVars, clock>>

\* addManualItemBtn: qty 0 stands for every refused input (NaN, <= 0)
AddManualItem(code, price, qty) ==
    LET i == findIndexByCode(posData.inventory, code)
    IN  /\ IF price <= 0 \/ qty <= 0
           THEN /\ showModal("Error", "manual item details")
                /\ UNCHANGED billingVars
           ELSE IF i > 0
           THEN IF qty > posData.inventory[i].stock
                THEN /\ showModal("Error", "Not enough stock")
                     /\ UNCHANGED billingVars
                ELSE addItemToCart(posData.inventory[i], qty)
           ELSE addItemToCart([id |-> generateUniqueId(itemIdsInUse), code |-> code,
                               price |-> price], qty)
        /\ UNCHANGED <<posData, storageVars, currentGrnItems, creditModalVars, itemFormVars, dispatchVars, sessionVars,
                       customerFormVars, clock>>

UpdateCartItemQuantity(itemId, newQty) ==
    LET k == findIndexById(currentCart, itemId)
        i == findIndexById(posData.inventory, itemId)
    IN  /\ IF k = 0
           THEN UNCHANGED <<billingVars, modal>>
           ELSE IF i > 0 /\ newQty > posData.inventory[i].stock
           THEN /\ showModal("Error", "Not enough stock")
                /\ renderCart([currentCart EXCEPT ![k].qty = posData.inventory[i].stock])
           ELSE /\ renderCart(IF newQty <= 0
                              THEN filterOutId(currentCart, itemId)
                              ELSE [currentCart EXCEPT ![k].qty = newQty])
                /\ UNCHANGED modal
        /\ UNCHANGED <<posData, storageVars, currentGrnItems, creditModalVars, itemFormVars, dispatchVars, sessionVars,
                       customerFormVars, clock>>

RemoveCartItem(itemId) ==
    /\ renderCart(filterOutId(currentCart, itemId))
    /\ UNCHANGED <<posData, storageVars, currentGrnItems, creditModalVars, itemFormVars, dispatchVars, sessionVars,
                   customerFormVars, clock, modal>>

\* 'change' of discountTypeSelect / 'input' of discountValueInput: an input
\* that is NaN or negative (-1) is replaced by 0 before the total is computed
DiscountChanged(type, value) ==
    LET v == IF value < 0 THEN 0 ELSE value
    IN  /\ discountTypeSelect' = type
        /\ discountValueInput' = v
        /\ cartGrandtotalSpan' \in calculateGrandTotal(cartSubtotalSpan, type, v)
        /\ UNCHANGED <<posData, storageVars, currentCart, cartSubtotalSpan, currentGrnItems,
                       creditModalVars, itemFormVars, dispatchVars, sessionVars, customerFormVars, clock, modal>>

\* ---- Process Bill ----
RECURSIVE soldQty(_, _)
\* total quantity the cart's forEach takes from the inventory item `id`
soldQty(cart, id) ==
    IF cart = <<>> THEN 0
    ELSE (IF Head(cart).id = id THEN Head(cart).qty ELSE 0) + soldQty(Tail(cart), id)

decrementStock(inv, cart) ==
    [i \in DOMAIN inv |-> [inv[i] EXCEPT !.stock = inv[i].stock - soldQty(cart, inv[i].id)]]

newSale(billId, customerDetails, paymentMethod) ==
    [id |-> billId,
     customer |-> customerDetails,
     items |-> currentCart,
     subtotal |-> cartSubtotalSpan,
     discountType |-> discountTypeSelect,
     discountValue |-> discountValueInput,
     discountAmount |-> cartSubtotalSpan - cartGrandtotalSpan,
     grandTotal |-> cartGrandtotalSpan,
     paymentMethod |-> paymentMethod]

\* newPayment recording the cart's subtotal instead of the amount it is given
newPaymentOfSubtotal(billId, amount, method) ==
    [id |-> generateUniqueId(paymentIdsInUse), billId |-> billId,
     amount |-> cartSubtotalSpan, method |-> method]

newPayment(billId, amount, method) ==
    [id |-> generateUniqueId(paymentIdsInUse), billId |-> billId,
     amount |-> amount, method |-> method]

\* newCreditBill that books the total as already paid
newCreditBillPaid(billId, customerId, grandTotal) ==
    [id |-> generateUniqueId(creditBillIdsInUse), billId |-> billId,
     customerId |-> customerId, totalAmount |-> grandTotal, paidAmount |-> grandTotal,
     dueAmount |-> grandTotal, paymentHistory |-> <<>>]

newCreditBill(billId, customerId, grandTotal) ==
    [id |-> generateUniqueId(creditBillIdsInUse), billId |-> billId,
     customerId |-> customerId, totalAmount |-> grandTotal, paidAmount |-> 0,
     dueAmount |-> grandTotal, paymentHistory |-> <<>>]

\* newCheque that enters the cheque as already claimed
newChequeClaimed(billId, amount) ==
    [id |-> generateUniqueId(chequeIdsInUse), billId |-> billId,
     amount |-> amount, status |-> "Claimed"]

newCheque(billId, amount) ==
    [id |-> generateUniqueId(chequeIdsInUse), billId |-> billId,
     amount |-> amount, status |-> "Pending"]

\* a handler that leaves the customer's balance as it is
addOutstandingCreditForgotten(customers, customerId, amount) ==
    customers

\* selectedCustomer.outstandingCredit += amount (amount < 0 for a decrement)
addOutstandingCredit(customers, customerId, amount) ==
    LET c == findIndexById(customers, customerId)
    IN  IF c = 0 THEN customers
        ELSE [customers EXCEPT ![c].outstandingCredit = customers[c].outstandingCredit + amount]

\* processBillRefusal without the check of the cheque details
processBillRefusalNoChequeCheck(customerType, customerId, paymentMethod, chequeComplete) ==
    LET c == findIndexById(posData.customers, customerId)
        grandTotal == cartGrandtotalSpan
    IN  IF Len(currentCart) = 0 THEN "emptyCart"
        ELSE IF customerType # "walking" /\ customerId = NoId THEN "noCustomer"
        ELSE IF customerType # "walking" /\ c = 0 THEN "customerNotFound"
        ELSE IF paymentMethod = "credit" /\ customerType = "walking" THEN "walkingCredit"
        ELSE IF paymentMethod = "credit" /\
                posData.customers[c].outstandingCredit + grandTotal
                    > posData.customers[c].creditLimit THEN "creditLimit"
        ELSE ""

\* processBillRefusal without the comparison against creditLimit
processBillRefusalNoLimit(customerType, customerId, paymentMethod, chequeComplete) ==
    LET c == findIndexById(posData.customers, customerId)
    IN  IF Len(currentCart) = 0 THEN "emptyCart"
        ELSE IF customerType # "walking" /\ customerId = NoId THEN "noCustomer"
        ELSE IF customerType # "walking" /\ c = 0 THEN "customerNotFound"
        ELSE IF paymentMethod = "credit" /\ customerType = "walking" THEN "walkingCredit"
        ELSE IF paymentMethod = "cheque" /\ ~chequeComplete THEN "chequeDetails"
        ELSE ""

\* the checks of the click handler, in the order of the code; "" = accepted
processBillRefusal(customerType, customerId, paymentMethod, chequeComplete) ==
    LET c == findIndexById(posData.customers, customerId)
        grandTotal == cartGrandtotalSpan
    IN  IF Len(currentCart) = 0 THEN "emptyCart"
        ELSE IF customerType # "walking" /\ customerId = NoId THEN "noCustomer"
        ELSE IF customerType # "walking" /\ c = 0 THEN "customerNotFound"
        ELSE IF paymentMethod = "credit" /\ customerType = "walking" THEN "walkingCredit"
        ELSE IF paymentMethod = "credit" /\
                posData.customers[c].outstandingCredit + grandTotal
                    > posData.customers[c].creditLimit THEN "creditLimit"
        ELSE IF paymentMethod = "cheque" /\ ~chequeComplete THEN "chequeDetails"
        ELSE ""

\* showReceiptModal opens the receipt; the global message box is not touched
showReceiptModal == UNCHANGED modal

\* resetBillingForm: empties the cart, re-renders it, then resets the inputs
resetBillingForm ==
    /\ currentCart' = <<>>
    /\ cartSubtotalSpan' = 0
    /\ cartGrandtotalSpan' \in calculateGrandTotal(0, discountTypeSelect, discountValueInput)
    /\ discountTypeSelect' = "lkr"
    /\ discountValueInput' = 0

\* processBillBtn click.  customerId is the value of the registered-customer
\* dropdown (NoId = nothing selected); t is the reading of Date.now()
ProcessBill(customerType, customerId, paymentMethod, chequeComplete, t) ==
    LET refusal == processBillRefusal(customerType, customerId, paymentMethod, chequeComplete)
        grandTotal == cartGrandtotalSpan
        customerDetails ==
            IF customerType = "walking"
            THEN [type |-> "walking", id |-> generateUniqueId(customerIdsInUse)]
            ELSE [type |-> "registered", id |-> customerId]
        sale == newSale(t, customerDetails, paymentMethod)
    IN  IF refusal # ""
        THEN /\ showModal("Error", refusal)
             /\ UNCHANGED <<posData, storageVars, billingVars, currentGrnItems, creditModalVars,
                            itemFormVars, dispatchVars, sessionVars, customerFormVars, clock>>
        ELSE /\ posData' =
                  [posData EXCEPT
                     !.sales = Append(@, sale),
                     !.inventory = decrementStock(@, currentCart),
                     !.payments = Append(@, newPayment(sale.id, grandTotal, paymentMethod)),
                     !.creditBills =
                         IF paymentMethod = "credit"
                         THEN Append(@, newCreditBill(sale.id, customerId, grandTotal))
                         ELSE @,
                     !.customers =
                         IF paymentMethod = "credit"
                         THEN addOutstandingCredit(@, customerId, grandTotal)
                         ELSE @,
                     !.cheques =
                         IF paymentMethod = "cheque" /\ chequeComplete
                         THEN Append(@, newCheque(sale.id, grandTotal))
                         ELSE @]
             /\ clock' = t
             /\ savePOSData(TRUE)
             /\ IF storageFull
                THEN showModal("Error", "Failed to save data")
                ELSE showReceiptModal
             /\ resetBillingForm
             /\ UNCHANGED <<currentGrnItems, creditModalVars, itemFormVars, dispatchVars, sessionVars, customerFormVars>>

\* ---- credit bills ----
OpenEditCreditBillModal(billId) ==
    /\ editingCreditBillId' = billId
    /\ IF findIndexById(posData.creditBills, billId) = 0
       THEN showModal("Error", "Credit bill not found")
       ELSE UNCHANGED modal
    /\ UNCHANGED <<posData, storageVars, billingVars, currentGrnItems, itemFormVars, dispatchVars, sessionVars,
                   customerFormVars, clock>>

\* hideEditCreditBillModal: editingCreditBillId is cleared by a timer 300 ms
\* after the click; the delay only postpones the assignment
HideEditCreditBillModal ==
    /\ editingCreditBillId' = NoId
    /\ UNCHANGED <<posData, storageVars, billingVars, currentGrnItems, itemFormVars, dispatchVars, sessionVars,
                   customerFormVars, clock, modal>>

\* installmentRefusal without the comparison against dueAmount
installmentRefusalNoDueCheck(paymentAmount, paymentMethod, chequeComplete) ==
    LET b == findIndexById(posData.creditBills, editingCreditBillId)
    IN  IF b = 0 THEN "billNotFound"
        ELSE IF paymentAmount <= 0 THEN "invalidAmount"
        ELSE IF paymentMethod = "cheque" /\ ~chequeComplete THEN "chequeDetails"
        ELSE ""

\* the checks of addInstallmentBtn, in the order of the code; "" = accepted
installmentRefusal(paymentAmount, paymentMethod, chequeComplete) ==
    LET b == findIndexById(posData.creditBills, editingCreditBillId)
    IN  IF b = 0 THEN "billNotFound"
        ELSE IF paymentAmount <= 0 THEN "invalidAmount"
        ELSE IF paymentAmount > posData.creditBills[b].dueAmount THEN "exceedsDue"
        ELSE IF paymentMethod = "cheque" /\ ~chequeComplete THEN "chequeDetails"
        ELSE ""

\* applyInstallment that forgets "creditBill.dueAmount -= paymentAmount"
applyInstallmentKeepsDue(creditBill, paymentAmount, newPaymentRecord) ==
    [creditBill EXCEPT
        !.paidAmount = creditBill.paidAmount + paymentAmount,
        !.paymentHistory = Append(creditBill.paymentHistory, newPaymentRecord)]

\* creditBill.paidAmount += ..; creditBill.dueAmount -= ..; paymentHistory.push(..)
applyInstallment(creditBill, paymentAmount, newPaymentRecord) ==
    [creditBill EXCEPT
        !.paidAmount = creditBill.paidAmount + paymentAmount,
        !.dueAmount = creditBill.dueAmount - paymentAmount,
        !.paymentHistory = Append(creditBill.paymentHistory, newPaymentRecord)]

\* addInstallmentBtn click; paymentAmount 0 stands for every input refused as
\* not a positive number
AddInstallment(paymentAmount, paymentMethod, chequeComplete) ==
    LET b == findIndexById(posData.creditBills, editingCreditBillId)
        creditBill == posData.creditBills[b]
        newPaymentRecord == newPayment(creditBill.billId, paymentAmount, paymentMethod)
    IN  IF installmentRefusal(paymentAmount, paymentMethod, chequeComplete) # ""
        THEN /\ showModal("Error", installmentRefusal(paymentAmount, paymentMethod, chequeComplete))
             /\ UNCHANGED <<posData, storageVars, billingVars, currentGrnItems, creditModalVars,
                            itemFormVars, dispatchVars, sessionVars, customerFormVars, clock>>
        ELSE /\ posData' =
                  [posData EXCEPT
                     !.creditBills =
                         [@ EXCEPT ![b] =
                             applyInstallment(creditBill, paymentAmount, newPaymentRecord)],
                     !.payments = Append(@, newPaymentRecord),
                     !.customers = addOutstandingCredit(@, creditBill.customerId, -paymentAmount),
                     !.cheques =
                         IF paymentMethod = "cheque" /\ chequeComplete
                         THEN Append(@, newCheque(creditBill.billId, paymentAmount))
                         ELSE @]
             /\ savePOSData(TRUE)
             /\ showModal("Success", "installment added")
             /\ UNCHANGED <<billingVars, currentGrnItems, creditModalVars, itemFormVars, dispatchVars, sessionVars,
                            customerFormVars, clock>>

\* revertOutstandingCredit taking the bill's totalAmount, without the floor
revertOutstandingCreditOfTotal(customers, creditBill) ==
    addOutstandingCredit(customers, creditBill.customerId, -creditBill.totalAmount)

\* deleteCreditBill: the owning customer's balance loses the bill's dueAmount
\* and is set to 0 when that leaves it negative
revertOutstandingCredit(customers, creditBill) ==
    LET c == findIndexById(customers, creditBill.customerId)
        reverted == addOutstandingCredit(customers, creditBill.customerId, -creditBill.dueAmount)
    IN  IF c > 0 /\ reverted[c].outstandingCredit < 0
        THEN [reverted EXCEPT ![c].outstandingCredit = 0]
        ELSE reverted

\* deleteCreditBill that also drops the payments recorded for the bill
DeleteCreditBillCascading(id) ==
    LET b == findIndexById(posData.creditBills, id)
        creditBill == posData.creditBills[b]
    IN  IF b = 0
        THEN UNCHANGED <<posData, storageVars, billingVars, currentGrnItems, creditModalVars,
                         itemFormVars, dispatchVars, sessionVars, customerFormVars, clock, modal>>
        ELSE /\ posData' =
                  [posData EXCEPT
                     !.customers = revertOutstandingCredit(@, creditBill),
                     !.creditBills = filterOutId(@, id),
                     !.payments = SelectSeq(@, LAMBDA p : p.billId # creditBill.billId)]
             /\ savePOSData(TRUE)
             /\ showModal("Success", "Credit bill deleted")
             /\ UNCHANGED <<billingVars, currentGrnItems, creditModalVars, itemFormVars, dispatchVars, sessionVars,
                            customerFormVars, clock>>

DeleteCreditBill(id) ==
    LET b == findIndexById(posData.creditBills, id)
        creditBill == posData.creditBills[b]
    IN  IF b = 0
        THEN UNCHANGED <<posData, storageVars, billingVars, currentGrnItems, creditModalVars,
                         itemFormVars, dispatchVars, sessionVars, customerFormVars, clock, modal>>
        ELSE /\ posData' =
                  [posData EXCEPT
                     !.customers = revertOutstandingCredit(@, creditBill),
                     !.creditBills = filterOutId(@, id)]
             /\ savePOSData(TRUE)
             /\ showModal("Success", "Credit bill deleted")
             /\ UNCHANGED <<billingVars, currentGrnItems, creditModalVars, itemFormVars, dispatchVars, sessionVars,
                            customerFormVars, clock>>

\* ---- stock receipts (GRN) ----
AddGrnItem(itemCode, itemQty) ==
    LET i == findIndexByCode(posData.inventory, itemCode)
        inventoryItem == posData.inventory[i]
        g == findIndexById(currentGrnItems, inventoryItem.id)
    IN  /\ IF itemQty <= 0 \/ i = 0
           THEN /\ showModal("Error", IF itemQty <= 0 THEN "valid item code and quantity"
                                                      ELSE "Item not found in inventory")
                /\ UNCHANGED currentGrnItems
           ELSE /\ currentGrnItems' =
                      IF g > 0
                      THEN [currentGrnItems EXCEPT ![g].qty = @ + itemQty]
                      ELSE Append(currentGrnItems, [id |-> inventoryItem.id,
                                                    code |-> inventoryItem.code,
                                                    qty |-> itemQty])
                /\ UNCHANGED modal
        /\ UNCHANGED <<posData, storageVars, billingVars, creditModalVars, itemFormVars, dispatchVars, sessionVars,
                       customerFormVars, clock>>

\* the remove button of a line of the receipt being prepared
RemoveGrnItem(itemId) ==
    /\ currentGrnItems' = filterOutId(currentGrnItems, itemId)
    /\ UNCHANGED <<posData, storageVars, billingVars, creditModalVars, itemFormVars, dispatchVars, sessionVars,
                   customerFormVars, clock, modal>>

RECURSIVE receivedQty(_, _)
receivedQty(items, id) ==
    IF items = <<>> THEN 0
    ELSE (IF Head(items).id = id THEN Head(items).qty ELSE 0) + receivedQty(Tail(items), id)

\* incrementStock that credits every line to every item
incrementStockAllItems(inv, items) ==
    [i \in DOMAIN inv |->
        [inv[i] EXCEPT !.stock = inv[i].stock + receivedQty(items, inv[i].id)
                                  + receivedQty(items, inv[1].id)]]

incrementStock(inv, items) ==
    [i \in DOMAIN inv |-> [inv[i] EXCEPT !.stock = inv[i].stock + receivedQty(items, inv[i].id)]]

\* createGrnForm submit; fieldsComplete: supplier and date are filled in
CreateGrn(fieldsComplete, t) ==
    IF ~fieldsComplete \/ Len(currentGrnItems) = 0
    THEN /\ showModal("Error", "fill in supplier, date, items")
         /\ UNCHANGED <<posData, storageVars, billingVars, currentGrnItems, creditModalVars,
                        itemFormVars, dispatchVars, sessionVars, customerFormVars, clock>>
    ELSE /\ posData' = [posData EXCEPT
                           !.grns = Append(@, [id |-> t, items |-> currentGrnItems]),
                           !.inventory = incrementStock(@, currentGrnItems)]
         /\ currentGrnItems' = <<>>
         /\ clock' = t
         /\ savePOSData(TRUE)
         /\ showModal("Success", "GRN processed")
         /\ UNCHANGED <<billingVars, creditModalVars, itemFormVars, dispatchVars, sessionVars, customerFormVars>>

DeleteGrn(id) ==
    /\ posData' = [posData EXCEPT !.grns = filterOutId(@, id)]
    /\ savePOSData(TRUE)
    /\ showModal("Success", "GRN deleted")
    /\ UNCHANGED <<billingVars, currentGrnItems, creditModalVars, itemFormVars, dispatchVars, sessionVars,
                   customerFormVars, clock>>

\* ---- payment records and cheques ----
\* deletePaymentRecord that takes the payment back out of its credit bill
DeletePaymentRecordReverting(id) ==
    LET p == posData.payments[findIndexById(posData.payments, id)]
        revert(bill) ==
            IF \E h \in Range(bill.paymentHistory) : h.id = id
            THEN [bill EXCEPT !.paidAmount = @ - p.amount, !.dueAmount = @ + p.amount,
                              !.paymentHistory = filterOutId(@, id)]
            ELSE bill
    IN  /\ posData' = [posData EXCEPT
                           !.payments = filterOutId(@, id),
                           !.creditBills = [i \in DOMAIN @ |-> revert(@[i])]]
        /\ savePOSData(TRUE)
        /\ showModal("Success", "Payment record deleted")
        /\ UNCHANGED <<billingVars, currentGrnItems, creditModalVars, itemFormVars, dispatchVars, sessionVars,
                       customerFormVars, clock>>

DeletePaymentRecord(id) ==
    /\ posData' = [posData EXCEPT !.payments = filterOutId(@, id)]
    /\ savePOSData(TRUE)
    /\ showModal("Success", "Payment record deleted")
    /\ UNCHANGED <<billingVars, currentGrnItems, creditModalVars, itemFormVars, dispatchVars, sessionVars,
                   customerFormVars, clock>>

\* updateChequeStatus that lets only a Pending cheque change its status
UpdateChequeStatusFromPending(id, newStatus) ==
    LET chequeIndex == findIndexById(posData.cheques, id)
    IN  /\ IF chequeIndex > 0 /\ posData.cheques[chequeIndex].status = "Pending"
           THEN /\ posData' = [posData EXCEPT !.cheques[chequeIndex].status = newStatus]
                /\ savePOSData(TRUE)
                /\ showModal("Success", "Cheque status updated")
           ELSE /\ showModal("Error", "Cheque not found")
                /\ UNCHANGED <<posData, storageVars>>
        /\ UNCHANGED <<billingVars, currentGrnItems, creditModalVars, itemFormVars, dispatchVars, sessionVars,
                       customerFormVars, clock>>

\* 'change' of a row's status select
UpdateChequeStatus(id, newStatus) ==
    LET chequeIndex == findIndexById(posData.cheques, id)
    IN  /\ IF chequeIndex > 0
           THEN /\ posData' = [posData EXCEPT !.cheques[chequeIndex].status = newStatus]
                /\ savePOSData(TRUE)
                /\ showModal("Success", "Cheque status updated")
           ELSE /\ showModal("Error", "Cheque not found")
                /\ UNCHANGED <<posData, storageVars>>
        /\ UNCHANGED <<billingVars, currentGrnItems, creditModalVars, itemFormVars, dispatchVars, sessionVars,
                       customerFormVars, clock>>

DeleteCheque(id) ==
    /\ posData' = [posData EXCEPT !.cheques = filterOutId(@, id)]
    /\ savePOSData(TRUE)
    /\ showModal("Success", "Cheque record deleted")
    /\ UNCHANGED <<billingVars, currentGrnItems, creditModalVars, itemFormVars, dispatchVars, sessionVars,
                   customerFormVars, clock>>

\* ---- distribution channels ----
\* submit of addDistributionChannelForm; upload: no file chosen, or the file
\* read by fileToBase64 succeeded or failed
SubmitChannelForm(upload) ==
    /\ IF upload = "fail"
       THEN /\ showModal("Error", "Failed to upload receipt logo")
            /\ UNCHANGED <<posData, storageVars>>
       ELSE /\ posData' = [posData EXCEPT !.distributionChannels =
                              Append(@, [id |-> generateUniqueId(channelIdsInUse)])]
            /\ savePOSData(TRUE)
            /\ showModal("Success", "Distribution channel added")
    /\ UNCHANGED <<billingVars, currentGrnItems, creditModalVars, itemFormVars, dispatchVars, sessionVars,
                   customerFormVars, clock>>

\* deleteDistributionChannel without the guard on the id 'main'
DeleteDistributionChannelUnguarded(id) ==
    /\ posData' = [posData EXCEPT !.distributionChannels = filterOutId(@, id)]
    /\ savePOSData(TRUE)
    /\ showModal("Success", "Distribution channel deleted")
    /\ UNCHANGED <<billingVars, currentGrnItems, creditModalVars, itemFormVars, dispatchVars, sessionVars,
                   customerFormVars, clock>>

DeleteDistributionChannel(id) ==
    /\ IF id = MainChannelId
       THEN /\ showModal("Error", "Cannot delete the main shop channel")
            /\ UNCHANGED <<posData, storageVars>>
       ELSE /\ posData' = [posData EXCEPT !.distributionChannels = filterOutId(@, id)]
            /\ savePOSData(TRUE)
            /\ showModal("Success", "Distribution channel deleted")
    /\ UNCHANGED <<billingVars, currentGrnItems, creditModalVars, itemFormVars, dispatchVars, sessionVars,
                   customerFormVars, clock>>

\* ---- the browser's storage, seen from the page ----
\* other pages of the origin fill the quota, or the user blocks site data
StorageFills ==
    /\ ~storageFull
    /\ storageFull' = TRUE
    /\ UNCHANGED <<posData, localStorage, billingVars, currentGrnItems, creditModalVars,
                   itemFormVars, dispatchVars, sessionVars, customerFormVars, clock, modal>>

StorageFrees ==
    /\ storageFull
    /\ storageFull' = FALSE
    /\ UNCHANGED <<posData, localStorage, billingVars, currentGrnItems, creditModalVars,
                   itemFormVars, dispatchVars, sessionVars, customerFormVars, clock, modal>>

\* ---- leaving and entering the dashboard ----
\* localStorage holds the document stored under STORAGE_KEY.  Without that
\* item loadPOSData takes defaultPOSData, exactly as it does when the item
\* holds the default document, so a storage without the item is the storage
\* that holds defaultPOSData.

\* logout(): localStorage.clear() removes every item of the origin, the
\* document and the account; then the login page is shown
logout ==
    /\ page = "dashboard"
    /\ localStorage' = defaultPOSData
    /\ user' = NoUser
    /\ page' = "login"
    /\ UNCHANGED <<posData, storageFull, billingVars, currentGrnItems, creditModalVars,
                   itemFormVars, dispatchVars, customerFormVars, clock, modal>>

\* signupForm submit; credentials NoUser stands for a form with an empty field.
\* setItem is outside any try block: a full storage ends the handler there.
signupFormSubmit(credentials) ==
    /\ page = "login"
    /\ user' = IF credentials = NoUser \/ storageFull THEN user ELSE credentials
    /\ UNCHANGED <<posData, storageVars, page, billingVars, currentGrnItems, creditModalVars,
                   itemFormVars, dispatchVars, customerFormVars, clock, modal>>

\* loadPOSData at the load of index.html, with the page's variables as the
\* script declares them
loadPOSData ==
    /\ posData' = localStorage
    /\ UNCHANGED <<localStorage, storageFull>>
    /\ currentCart' = <<>>
    /\ currentGrnItems' = <<>>
    /\ editingCreditBillId' = NoId
    /\ discountTypeSelect' = "lkr"
    /\ discountValueInput' = 0
    /\ cartSubtotalSpan' = 0
    /\ cartGrandtotalSpan' = 0
    /\ itemFormMode' = "add"
    /\ itemFormItem' = NoItem
    /\ customerFormMode' = "add"
    /\ customerFormCustomer' = NoId
    /\ submitRuns' = 0
    /\ uncaughtError' = ""
    /\ modal' = [title |-> "", message |-> ""]

\* loginForm submit: the dashboard is opened when the credentials are those
\* of the stored account, otherwise an alert is shown
loginFormSubmit(credentials) ==
    /\ page = "login"
    /\ IF user # NoUser /\ credentials = user
       THEN /\ page' = "dashboard"
            /\ loadPOSData
            /\ UNCHANGED <<user, clock>>
       ELSE UNCHANGED <<posData, storageVars, sessionVars, billingVars, currentGrnItems,
                        creditModalVars, itemFormVars, dispatchVars, customerFormVars,
                        clock, modal>>

\* ---- the user's next gesture ----
inventoryIds == {x.id : x \in Range(posData.inventory)}
customerIds == {c.id : c \in Range(posData.customers)}
cartIds == {x.id : x \in Range(currentCart)}
creditBillIds == {b.id : b \in Range(posData.creditBills)}
grnIds == {g.id : g \in Range(posData.grns)}
paymentIds == {p.id : p \in Range(posData.payments)}
chequeIds == {c.id : c \in Range(posData.cheques)}
channelIds == {c.id : c \in Range(posData.distributionChannels)}
grnItemIds == {x.id : x \in Range(currentGrnItems)}

NextDashboard ==
    \/ \E code \in Codes, price \in Prices, stock \in StockInputs :
           gesture /\ SubmitItemForm(code, price, stock)
    \/ \E id \in inventoryIds : gesture /\ EditInventoryItem(id)
    \/ \E id \in inventoryIds : gesture /\ DeleteInventoryItem(id)
    \/ \E creditLimit \in CreditLimitInputs : gesture /\ SubmitCustomerForm(creditLimit)
    \/ \E id \in customerIds : gesture /\ EditCustomer(id)
    \/ \E id \in customerIds : gesture /\ DeleteCustomer(id)
    \/ \E code \in Codes : gesture /\ AddItemByBarcode(code)
    \/ \E code \in Codes \cup {ManualCode}, price \in Prices, qty \in QtyInputs :
           gesture /\ AddManualItem(code, price, qty)
    \/ \E id \in cartIds, newQty \in QtyInputs : gesture /\ UpdateCartItemQuantity(id, newQty)
    \/ \E id \in cartIds : gesture /\ RemoveCartItem(id)
    \/ \E type \in DiscountTypes, value \in DiscountInputs : gesture /\ DiscountChanged(type, value)
    \/ \E customerType \in {"walking", "registered"}, customerId \in customerIds \cup {NoId},
          paymentMethod \in PaymentMethods, chequeComplete \in BOOLEAN, t \in {clock, clock + 1} :
           gesture /\ ProcessBill(customerType, customerId, paymentMethod, chequeComplete, t)
    \/ \E id \in creditBillIds : gesture /\ OpenEditCreditBillModal(id)
    \/ gesture /\ HideEditCreditBillModal
    \/ \E amount \in InstallmentInputs, method \in InstallmentMethods, chequeComplete \in BOOLEAN :
           gesture /\ AddInstallment(amount, method, chequeComplete)
    \/ \E id \in creditBillIds : gesture /\ DeleteCreditBill(id)
    \/ \E code \in Codes, qty \in QtyInputs : gesture /\ AddGrnItem(code, qty)
    \/ \E fieldsComplete \in BOOLEAN, t \in {clock, clock + 1} : gesture /\ CreateGrn(fieldsComplete, t)
    \/ \E id \in grnItemIds : gesture /\ RemoveGrnItem(id)
    \/ \E id \in grnIds : gesture /\ DeleteGrn(id)
    \/ \E id \in paymentIds : gesture /\ DeletePaymentRecord(id)
    \/ \E id \in chequeIds, newStatus \in ChequeStatuses : gesture /\ UpdateChequeStatus(id, newStatus)
    \/ \E id \in chequeIds : gesture /\ DeleteCheque(id)
    \/ \E upload \in UploadOutcomes : gesture /\ SubmitChannelForm(upload)
    \/ \E id \in channelIds : gesture /\ DeleteDistributionChannel(id)
    \/ gesture /\ StorageFills
    \/ gesture /\ StorageFrees

Next ==
    \/ page = "dashboard" /\ NextDashboard
    \/ gesture /\ logout
    \/ \E credentials \in Credentials \cup {NoUser} : gesture /\ signupFormSubmit(credentials)
    \/ \E credentials \in Credentials : gesture /\ loginFormSubmit(credentials)

Spec == Init /\ [][Next]_vars

\* ---- sessions: work on the dashboard, log out, sign up, log in ----
NextSession ==
    \/ page = "dashboard" /\ gesture /\ SubmitCustomerForm(15)
    \/ page = "dashboard" /\ gesture /\ SubmitItemForm("A", 5, 2)
    \/ \E id \in customerIds : page = "dashboard" /\ gesture /\ DeleteCustomer(id)
    \/ gesture /\ logout
    \/ \E credentials \in Credentials \cup {NoUser} : gesture /\ signupFormSubmit(credentials)
    \/ \E credentials \in Credentials : gesture /\ loginFormSubmit(credentials)

SpecSession == Init /\ [][NextSession]_vars

\* ---- the credit desk: customers, a cart of manual items, billing, the ledger ----
NextCredit ==
    \/ \E creditLimit \in CreditLimitInputs : gesture /\ SubmitCustomerForm(creditLimit)
    \/ \E id \in customerIds : gesture /\ EditCustomer(id)
    \/ \E id \in customerIds : gesture /\ DeleteCustomer(id)
    \/ \E qty \in QtyInputs : gesture /\ AddManualItem(ManualCode, 5, qty)
    \/ \E id \in cartIds, newQty \in QtyInputs : gesture /\ UpdateCartItemQuantity(id, newQty)
    \/ \E id \in cartIds : gesture /\ RemoveCartItem(id)
    \/ \E type \in DiscountTypes, value \in DiscountInputs : gesture /\ DiscountChanged(type, value)
    \/ \E customerType \in {"walking", "registered"}, customerId \in customerIds \cup {NoId},
          paymentMethod \in PaymentMethods, chequeComplete \in BOOLEAN, t \in {clock, clock + 1} :
           gesture /\ ProcessBill(customerType, customerId, paymentMethod, chequeComplete, t)
    \/ \E id \in creditBillIds : gesture /\ OpenEditCreditBillModal(id)
    \/ gesture /\ HideEditCreditBillModal
    \/ \E amount \in InstallmentInputs, method \in InstallmentMethods, chequeComplete \in BOOLEAN :
           gesture /\ AddInstallment(amount, method, chequeComplete)
    \/ \E id \in creditBillIds : gesture /\ DeleteCreditBill(id)

SpecCredit == Init /\ [][NextCredit]_vars

\* ---- the stock room: inventory, the cart, cash billing, stock receipts ----
NextStock ==
    \/ \E stock \in StockInputs : gesture /\ SubmitItemForm("A", 5, stock)
    \/ \E id \in inventoryIds : gesture /\ EditInventoryItem(id)
    \/ \E id \in inventoryIds : gesture /\ DeleteInventoryItem(id)
    \/ gesture /\ AddItemByBarcode("A")
    \/ \E code \in {"A", ManualCode}, qty \in QtyInputs : gesture /\ AddManualItem(code, 5, qty)
    \/ \E id \in cartIds, newQty \in QtyInputs : gesture /\ UpdateCartItemQuantity(id, newQty)
    \/ \E id \in cartIds : gesture /\ RemoveCartItem(id)
    \/ \E t \in {clock, clock + 1} : gesture /\ ProcessBill("walking", NoId, "cash", FALSE, t)
    \/ \E qty \in QtyInputs : gesture /\ AddGrnItem("A", qty)
    \/ \E fieldsComplete \in BOOLEAN, t \in {clock, clock + 1} : gesture /\ CreateGrn(fieldsComplete, t)
    \/ \E id \in grnIds : gesture /\ DeleteGrn(id)

SpecStock == Init /\ [][NextStock]_vars

\* ---- the records desk: credit bills, payments, cheques and stock receipts ----
\* deleteCreditBill and updateChequeStatus are also called with an id that is
\* in no row (NoId)
NextRecords ==
    \/ gesture /\ SubmitCustomerForm(15)
    \/ gesture /\ AddManualItem(ManualCode, 5, 2)
    \/ \E customerType \in {"walking", "registered"}, customerId \in customerIds \cup {NoId},
          paymentMethod \in {"cheque", "credit"}, t \in {clock, clock + 1} :
           gesture /\ ProcessBill(customerType, customerId, paymentMethod, TRUE, t)
    \/ \E id \in creditBillIds : gesture /\ OpenEditCreditBillModal(id)
    \/ \E method \in InstallmentMethods : gesture /\ AddInstallment(5, method, TRUE)
    \/ \E id \in creditBillIds \cup {NoId} : gesture /\ DeleteCreditBill(id)
    \/ \E id \in paymentIds : gesture /\ DeletePaymentRecord(id)
    \/ \E id \in chequeIds \cup {NoId}, newStatus \in ChequeStatuses :
           gesture /\ UpdateChequeStatus(id, newStatus)
    \/ \E id \in chequeIds : gesture /\ DeleteCheque(id)
    \/ gesture /\ SubmitItemForm("A", 5, 2)
    \/ gesture /\ AddGrnItem("A", 1)
    \/ \E t \in {clock, clock + 1} : gesture /\ CreateGrn(TRUE, t)
    \/ \E id \in grnIds : gesture /\ DeleteGrn(id)

SpecRecords == Init /\ [][NextRecords]_vars

\* ---- a session during which the storage write can fail ----
NextStorage ==
    \/ gesture /\ StorageFills
    \/ gesture /\ StorageFrees
    \/ gesture /\ SubmitCustomerForm(15)
    \/ \E id \in customerIds : gesture /\ DeleteCustomer(id)
    \/ gesture /\ AddManualItem(ManualCode, 5, 2)
    \/ \E customerType \in {"walking", "registered"}, customerId \in customerIds \cup {NoId},
          paymentMethod \in {"cheque", "credit"}, t \in {clock, clock + 1} :
           gesture /\ ProcessBill(customerType, customerId, paymentMethod, TRUE, t)
    \/ \E id \in creditBillIds : gesture /\ OpenEditCreditBillModal(id)
    \/ \E method \in InstallmentMethods : gesture /\ AddInstallment(5, method, TRUE)
    \/ \E id \in creditBillIds : gesture /\ DeleteCreditBill(id)
    \/ \E id \in paymentIds : gesture /\ DeletePaymentRecord(id)
    \/ \E id \in chequeIds, newStatus \in ChequeStatuses :
           gesture /\ UpdateChequeStatus(id, newStatus)
    \/ \E id \in chequeIds : gesture /\ DeleteCheque(id)

SpecStorage == Init /\ [][NextStorage]_vars

\* ---- sales followed by changes to what they were made from ----
NextHistory ==
    \/ \E price \in Prices : gesture /\ SubmitItemForm("A", price, 2)
    \/ \E id \in inventoryIds : gesture /\ EditInventoryItem(id)
    \/ \E id \in inventoryIds : gesture /\ DeleteInventoryItem(id)
    \/ gesture /\ SubmitCustomerForm(15)
    \/ \E id \in customerIds : gesture /\ EditCustomer(id)
    \/ \E id \in customerIds : gesture /\ DeleteCustomer(id)
    \/ gesture /\ AddItemByBarcode("A")
    \/ \E customerType \in {"walking", "registered"}, customerId \in customerIds \cup {NoId},
          paymentMethod \in {"cash", "credit"}, t \in {clock, clock + 1} :
           gesture /\ ProcessBill(customerType, customerId, paymentMethod, FALSE, t)
    \/ \E id \in creditBillIds : gesture /\ OpenEditCreditBillModal(id)
    \/ gesture /\ AddInstallment(5, "cash", FALSE)
    \/ \E id \in creditBillIds : gesture /\ DeleteCreditBill(id)
    \/ \E id \in paymentIds : gesture /\ DeletePaymentRecord(id)
    \/ gesture /\ AddGrnItem("A", 1)
    \/ \E t \in {clock, clock + 1} : gesture /\ CreateGrn(TRUE, t)
    \/ \E id \in grnIds : gesture /\ DeleteGrn(id)

SpecHistory == Init /\ [][NextHistory]_vars

\* ---- the inventory form with two codes ----
NextInventory ==
    \/ \E code \in Codes, price \in Prices, stock \in {-1, 2} :
           gesture /\ SubmitItemForm(code, price, stock)
    \/ \E id \in inventoryIds \cup {NoId} : gesture /\ EditInventoryItem(id)
    \/ \E id \in inventoryIds : gesture /\ DeleteInventoryItem(id)

SpecInventory == Init /\ [][NextInventory]_vars

\* ---- stock receipts for two items ----
NextReceipts ==
    \/ \E code \in Codes : gesture /\ SubmitItemForm(code, 5, 2)
    \/ \E id \in inventoryIds : gesture /\ DeleteInventoryItem(id)
    \/ \E code \in Codes, qty \in QtyInputs : gesture /\ AddGrnItem(code, qty)
    \/ \E id \in grnItemIds : gesture /\ RemoveGrnItem(id)
    \/ \E fieldsComplete \in BOOLEAN, t \in {clock, clock + 1} :
           gesture /\ CreateGrn(fieldsComplete, t)

SpecReceipts == Init /\ [][NextReceipts]_vars

\* ---- the channel list ----
NextChannels ==
    \/ \E upload \in UploadOutcomes : gesture /\ SubmitChannelForm(upload)
    \/ \E id \in channelIds : gesture /\ DeleteDistributionChannel(id)

SpecChannels == Init /\ [][NextChannels]_vars

\* ======================= properties =======================
Last(s) == s[Len(s)]
SaleRecorded == Len(posData'.sales) = Len(posData.sales) + 1
Max(a, b) == IF a > b THEN a ELSE b

C10_PaymentAmountPositive ==
    \A payment \in Range(posData.payments) : payment.amount > 0

\* C4: a credit sale to a registered customer is refused whenever
\* outstandingCredit + grandTotal > creditLimit, and the refusal changes no
\* sale, payment, credit bill, stock or balance.
C4_CreditLimitRefusal ==
    [][\A customerId \in customerIds, chequeComplete \in BOOLEAN, t \in {clock, clock + 1} :
          (/\ ProcessBill("registered", customerId, "credit", chequeComplete, t)
           /\ \E c \in Range(posData.customers) :
                 /\ c.id = customerId
                 /\ c.outstandingCredit + cartGrandtotalSpan > c.creditLimit)
          => posData' = posData]_vars

\* a customer who owes already and a cart that would take the balance over the
\* limit (10 owed, 10 in the cart, limit 15), just refused
C4_Witness ==
    /\ modal.message = "creditLimit"
    /\ currentCart # <<>>
    /\ \E c \in Range(posData.customers) :
          /\ c.outstandingCredit > 0
          /\ c.outstandingCredit <= c.creditLimit
          /\ c.outstandingCredit + cartGrandtotalSpan > c.creditLimit

\* C5: an accepted credit sale appends exactly one CreditBill (billId = the
\* sale's id, totalAmount = dueAmount = grandTotal, paidAmount = 0) and raises
\* the selected customer's outstandingCredit by grandTotal; a sale paid any
\* other way appends no CreditBill and changes no customer.
C5_CreditSaleBooksBill ==
    [][SaleRecorded =>
         LET sale == Last(posData'.sales)
             before == posData.creditBills
             after == posData'.creditBills
         IN  IF sale.paymentMethod = "credit"
             THEN /\ Len(after) = Len(before) + 1
                  /\ SubSeq(after, 1, Len(before)) = before
                  /\ Last(after).billId = sale.id
                  /\ Last(after).customerId = sale.customer.id
                  /\ Last(after).totalAmount = sale.grandTotal
                  /\ Last(after).paidAmount = 0
                  /\ Last(after).dueAmount = sale.grandTotal
                  /\ posData'.customers =
                         [i \in DOMAIN posData.customers |->
                             IF posData.customers[i].id = sale.customer.id
                             THEN [posData.customers[i] EXCEPT
                                      !.outstandingCredit = @ + sale.grandTotal]
                             ELSE posData.customers[i]]
             ELSE /\ after = before
                  /\ posData'.customers = posData.customers]_vars

\* a credit sale with a positive total, booked on its customer
C5_Witness ==
    \E sale \in Range(posData.sales), bill \in Range(posData.creditBills),
       c \in Range(posData.customers) :
        /\ sale.paymentMethod = "credit"
        /\ sale.grandTotal > 0
        /\ bill.billId = sale.id
        /\ bill.paidAmount = 0
        /\ c.id = bill.customerId
        /\ c.outstandingCredit = sale.grandTotal

C9_SaleAppendsPayment ==
    [][SaleRecorded =>
         LET sale == Last(posData'.sales)
             before == posData.payments
             after == posData'.payments
         IN  /\ Len(after) = Len(before) + 1
             /\ SubSeq(after, 1, Len(before)) = before
             /\ Last(after).amount = sale.grandTotal
             /\ Last(after).billId = sale.id
             /\ Last(after).method = sale.paymentMethod]_vars

\* a discounted sale paid by cheque, and its payment
C9_Witness ==
    \E sale \in Range(posData.sales), payment \in Range(posData.payments) :
        /\ sale.paymentMethod = "cheque"
        /\ sale.discountAmount > 0
        /\ sale.grandTotal > 0
        /\ payment.billId = sale.id
        /\ payment.amount = sale.grandTotal

C13_DeleteCustomer ==
    [][\A id \in customerIds :
          DeleteCustomer(id) =>
              IF \E bill \in Range(posData.creditBills) :
                     bill.customerId = id /\ bill.dueAmount > 0
              THEN posData' = posData
              ELSE /\ posData'.customers =
                          SelectSeq(posData.customers, LAMBDA c : c.id # id)
                   /\ Len(posData'.customers) = Len(posData.customers) - 1
                   /\ [posData' EXCEPT !.customers = posData.customers] = posData]_vars

\* a customer with an open bill has just been refused, and is still there
C13_Witness ==
    /\ modal.message = "outstanding credit bills"
    /\ \E c \in Range(posData.customers), bill \in Range(posData.creditBills) :
          /\ bill.customerId = c.id
          /\ bill.dueAmount > 0
          /\ bill.paidAmount > 0

\* C14: from the default document, after any sequence of channel additions
\* and deletions exactly one distribution channel has the id 'main', and
\* deleteDistributionChannel('main') is refused and changes nothing.
C14_MainChannel ==
    /\ [](Cardinality({i \in DOMAIN posData.distributionChannels :
                          posData.distributionChannels[i].id = MainChannelId}) = 1)
    /\ [][DeleteDistributionChannel(MainChannelId) =>
             posData' = posData /\ modal'.title = "Error"]_vars

\* the main channel has just been refused deletion while other channels exist
C14_Witness ==
    /\ modal.message = "Cannot delete the main shop channel"
    /\ Len(posData.distributionChannels) >= 3
    /\ posData.distributionChannels[1].id = MainChannelId

\* C15: updateChequeStatus(id, s) on an existing cheque sets its status to s
\* from every current status and for every s of Pending, Claimed, Released,
\* Bounced; it changes nothing but that cheque's status, so a repeated call
\* with the same s leaves the document as it is.
C15_ChequeStatus ==
    [][\A id \in chequeIds, s \in ChequeStatuses :
          UpdateChequeStatus(id, s) =>
              LET i == findIndexById(posData.cheques, id)
              IN  /\ modal'.title = "Success"
                  /\ posData'.cheques[i].status = s
                  /\ [posData' EXCEPT !.cheques[i].status = posData.cheques[i].status] = posData
                  /\ posData.cheques[i].status = s => posData' = posData]_vars

\* a cheque received for a sale stands at Bounced after a status change; the
\* sale's payment is untouched
C15_Witness ==
    /\ modal.message = "Cheque status updated"
    /\ \E cheque \in Range(posData.cheques), payment \in Range(posData.payments) :
          /\ cheque.status = "Bounced"
          /\ payment.billId = cheque.billId
          /\ payment.amount = cheque.amount

\* C16: a Process Bill request that fails a validation (empty cart, no or
\* unknown registered customer, credit for a walking customer, credit limit
\* exceeded, cheque payment with a cheque detail missing) has no side effect:
\* sales, payments, credit bills, cheques, stock and balances are unchanged,
\* and nothing is written to storage.  Stated from the effect's side: a step
\* that changes the document or the stored copy is never such a request.
C16_InvalidBillNoEffect ==
    [][(posData' # posData \/ localStorage' # localStorage) =>
         \A customerType \in {"walking", "registered"}, customerId \in customerIds \cup {NoId},
            paymentMethod \in PaymentMethods, chequeComplete \in BOOLEAN, t \in {clock, clock + 1} :
            (\/ currentCart = <<>>
             \/ customerType = "registered" /\ customerId \notin customerIds
             \/ customerType = "walking" /\ paymentMethod = "credit"
             \/ /\ customerType = "registered"
                /\ paymentMethod = "credit"
                /\ \E c \in Range(posData.customers) :
                      /\ c.id = customerId
                      /\ c.outstandingCredit + cartGrandtotalSpan > c.creditLimit
             \/ paymentMethod = "cheque" /\ ~chequeComplete)
            => ~ProcessBill(customerType, customerId, paymentMethod, chequeComplete, t)]_vars

\* a cheque payment without its details has just been refused, with items in
\* the cart and earlier sales on record
C16_Witness ==
    /\ modal.message = "chequeDetails"
    /\ currentCart # <<>>
    /\ cartGrandtotalSpan > 0
    /\ posData.sales # <<>>

\* C17: if the storage write fails during a mutating operation (sale,
\* installment, delete, status change), the in-memory document remains equal
\* to the last successfully persisted document.
C17_FailedWriteKeepsPersisted ==
    [][(storageFull /\ posData' # posData) => posData' = localStorage']_vars

\* C18: if the storage write fails during a mutating operation, what the user
\* finally sees is the save-failure error, not the operation's own 'Success'
\* message.
C18_FailedWriteShown ==
    [][(storageFull /\ posData' # posData) =>
          modal' = [title |-> "Error", message |-> "Failed to save data"]]_vars

\* C19: once a Sale is recorded, its line items, its customer snapshot and its
\* totals never change: whatever happens later (edit or deletion of an item
\* or a customer, another sale, an installment, a stock receipt, a delete),
\* every sale on record stays at its place with every field as it was.
C19_SalesAreHistory ==
    [][\A i \in DOMAIN posData.sales :
          /\ i \in DOMAIN posData'.sales
          /\ posData'.sales[i] = posData.sales[i]]_vars

\* an item sold at one price stands in the inventory at another price now,
\* and the sale shows the price it was sold at
C19_Witness ==
    \E sale \in Range(posData.sales), item \in Range(posData.inventory) :
      \E line \in Range(sale.items) :
        /\ line.id = item.id
        /\ line.price = 5
        /\ item.price = 10
        /\ sale.subtotal = line.price * line.qty

\* C20: in every reachable state no two InventoryItems share the same code;
\* a submit of the add form with a code some item has is refused, and a
\* submit of the edit form that changes the item's code to one another item
\* has is refused, each leaving the inventory as it was.
C20_UniqueCodes ==
    /\ [](\A i, j \in DOMAIN posData.inventory :
             posData.inventory[i].code = posData.inventory[j].code => i = j)
    /\ [][\A code \in Codes, price \in Prices, stock \in {-1, 2} :
            (/\ SubmitItemForm(code, price, stock)
             /\ \/ /\ itemFormMode # "edit"
                   /\ \E x \in Range(posData.inventory) : x.code = code
                \/ /\ itemFormMode = "edit"
                   /\ code # itemFormItem.code
                   /\ \E x \in Range(posData.inventory) :
                         x.code = code /\ x.id # itemFormItem.id)
            => /\ posData'.inventory = posData.inventory
               /\ modal'.title = "Error"]_vars

\* items A and B both stand in the inventory and the edit of one of them to
\* the other's code has just been refused
C20_Witness ==
    /\ Len(posData.inventory) = 2
    /\ itemFormMode = "edit"
    /\ \E x, y \in Range(posData.inventory) :
          /\ x.id = itemFormItem.id
          /\ x.code = itemFormItem.code
          /\ y.id # x.id
          /\ y.code # x.code
    /\ modal = [title |-> "Error", message |-> "another item uses this code"]

\* C21: every Cheque row is created with status Pending; an accepted
\* cheque-paid sale creates exactly one, for the sale's grandTotal, an accepted
\* cheque-paid installment creates exactly one, for the installment amount,
\* and no other step creates a Cheque.
C21_ChequeCreation ==
    [][LET created == {i \in DOMAIN posData'.cheques : posData'.cheques[i].id \notin chequeIds}
           paidInstallment == /\ ~SaleRecorded
                              /\ Len(posData'.payments) = Len(posData.payments) + 1
           byCheque == IF SaleRecorded
                       THEN Last(posData'.sales).paymentMethod = "cheque"
                       ELSE paidInstallment /\ Last(posData'.payments).method = "cheque"
       IN  /\ Cardinality(created) = IF byCheque THEN 1 ELSE 0
           /\ \A i \in created :
                 /\ i = Len(posData'.cheques)
                 /\ posData'.cheques[i].status = "Pending"
                 /\ SaleRecorded =>
                       /\ posData'.cheques[i].amount = Last(posData'.sales).grandTotal
                       /\ posData'.cheques[i].billId = Last(posData'.sales).id
                 /\ paidInstallment =>
                       /\ posData'.cheques[i].amount = Last(posData'.payments).amount
                       /\ posData'.cheques[i].billId = Last(posData'.payments).billId
           /\ \A i \in DOMAIN posData'.cheques \ created :
                 \E j \in DOMAIN posData.cheques :
                    /\ posData.cheques[j].id = posData'.cheques[i].id
                    /\ posData.cheques[j].amount = posData'.cheques[i].amount]_vars

\* a credit bill of 10 has taken an installment of 5 by cheque: the cheque is
\* for 5, Pending, and carries the sale's id
C21_Witness ==
    \E b \in Range(posData.creditBills), c \in Range(posData.cheques) :
        /\ b.totalAmount = 10
        /\ b.paidAmount = 5
        /\ c.billId = b.billId
        /\ c.amount = 5
        /\ c.status = "Pending"
        /\ modal = [title |-> "Success", message |-> "installment added"]

\* C22: no two Sales in the sales collection ever have the same id, for any
\* sequence of processed sales.
C22_SaleIdsUnique ==
    \A i, j \in DOMAIN posData.sales :
        posData.sales[i].id = posData.sales[j].id => i = j

\* C23: the discount amount applied to a sale equals min(subtotal, value) for
\* a flat discount and min(subtotal, subtotal*value/100) for a percentage
\* discount (amounts in cents, compared in hundredths of a cent).
C23_DiscountAmount ==
    \A sale \in Range(posData.sales) :
        sale.discountAmount * 100 =
            Min(sale.subtotal * 100,
                IF sale.discountType = "lkr"
                THEN sale.discountValue * 100
                ELSE sale.subtotal * sale.discountValue)

\* C24: the receipt being prepared has one line per item, a repeated addition
\* being summed into the item's line; processing it appends one GRN record
\* with those lines, raises the stock of every listed item still in the
\* inventory by the quantity of its line, and changes nothing else of any item.
C24_GrnReceivesStock ==
    /\ [](\A i, j \in DOMAIN currentGrnItems :
             currentGrnItems[i].id = currentGrnItems[j].id => i = j)
    /\ [][\A code \in Codes, qty \in QtyInputs :
            (/\ AddGrnItem(code, qty)
             /\ qty > 0
             /\ \E x \in Range(posData.inventory) : x.code = code)
            => \E x \in Range(posData.inventory), l \in Range(currentGrnItems') :
                  /\ x.code = code
                  /\ l.id = x.id
                  /\ \/ /\ x.id \notin grnItemIds
                        /\ l.qty = qty
                        /\ Len(currentGrnItems') = Len(currentGrnItems) + 1
                     \/ /\ Len(currentGrnItems') = Len(currentGrnItems)
                        /\ \E k \in Range(currentGrnItems) : k.id = x.id /\ l.qty = k.qty + qty]_vars
    /\ [][Len(posData'.grns) > Len(posData.grns) =>
            /\ Len(posData'.grns) = Len(posData.grns) + 1
            /\ Last(posData'.grns).items = currentGrnItems
            /\ currentGrnItems # <<>>
            /\ DOMAIN posData'.inventory = DOMAIN posData.inventory
            /\ \A i \in DOMAIN posData.inventory :
                  LET line == {l \in Range(currentGrnItems) : l.id = posData.inventory[i].id}
                  IN  /\ line = {} => posData'.inventory[i] = posData.inventory[i]
                      /\ \A l \in line :
                            posData'.inventory[i] =
                                [posData.inventory[i] EXCEPT !.stock = @ + l.qty]]_vars

\* two additions of item A (1 and 2) were received as one line of 3: A went
\* from 2 to 5 and B stayed at 2
C24_Witness ==
    /\ Len(posData.grns) = 1
    /\ Len(posData.grns[1].items) = 1
    /\ posData.grns[1].items[1].qty = 3
    /\ \E a, b \in Range(posData.inventory) :
          /\ a.id = posData.grns[1].items[1].id
          /\ a.stock = 5
          /\ b.id # a.id
          /\ b.stock = 2
    /\ modal = [title |-> "Success", message |-> "GRN processed"]

RECURSIVE SumDue(_, _)
\* the sum of dueAmount over the credit bills of a customer
SumDue(bills, customerId) ==
    IF bills = <<>> THEN 0
    ELSE (IF Head(bills).customerId = customerId THEN Head(bills).dueAmount ELSE 0)
         + SumDue(Tail(bills), customerId)

RECURSIVE SumPayments(_, _)
\* the sum of the amounts of the payments carrying a billId
SumPayments(payments, billId) ==
    IF payments = <<>> THEN 0
    ELSE (IF Head(payments).billId = billId THEN Head(payments).amount ELSE 0)
         + SumPayments(Tail(payments), billId)

\* C27: for every credit sale, while no Payment row has been deleted, the
\* Payment amounts carrying the sale's id add up to the credit bill's
\* totalAmount + paidAmount (the grand total at sale time plus every
\* installment, each under the sale's billId).
C27_PaymentsOfCreditSale ==
    \A b \in Range(posData.creditBills) :
        SumPayments(posData.payments, b.billId) = b.totalAmount + b.paidAmount

\* C28: every submit of the item form and of the customer form ends after its
\* listener has run a number of times that does not depend on the room of the
\* call stack, without an uncaught error, and adds at most one record; this
\* includes the submits made after an edit has completed.
C28_SubmitTerminates ==
    /\ [](uncaughtError = "" /\ submitRuns < CallStackLimit)
    /\ [][/\ Len(posData'.inventory) <= Len(posData.inventory) + 1
          /\ Len(posData'.customers) <= Len(posData.customers) + 1]_vars

\* C29: a submit of the customer form in edit mode (after editCustomer(id))
\* with a valid credit limit updates the credit limit of customer id only,
\* keeps that customer's id and outstandingCredit, and leaves the number of
\* customers unchanged.
C29_EditCustomerUpdates ==
    [][\A creditLimit \in CreditLimitInputs :
          (/\ customerFormMode = "edit"
           /\ creditLimit >= 0
           /\ customerFormCustomer \in customerIds
           /\ SubmitCustomerForm(creditLimit))
          => /\ Len(posData'.customers) = Len(posData.customers)
             /\ \A i \in DOMAIN posData.customers :
                   posData'.customers[i] =
                       IF posData.customers[i].id = customerFormCustomer
                       THEN [posData.customers[i] EXCEPT !.creditLimit = creditLimit]
                       ELSE posData.customers[i]]_vars

\* C30: logging out does not destroy recorded data: the document persisted
\* before logout() is the one a new session's loadPOSData reads, and the
\* account registered at sign-up is still there to log in with.
C30_LogoutKeepsData ==
    [][(page = "dashboard" /\ page' = "login") =>
          /\ localStorage' = localStorage
          /\ user' = user]_vars

====
